---- MODULE Spec2Model ----
(***************************************************************************)
(* Asynchronous annotation pipeline of document-manager-service: the two   *)
(* SQS consumer loops (tagging, embedding), the per-document status        *)
(* fields, tag matching, document-tag links and document embeddings.       *)
(***************************************************************************)
EXTENDS Integers, Sequences, FiniteSets, Bags, TLC

(***************************************************************************)
(* Bounds of the model                                                     *)
(***************************************************************************)
\* number of DocumentReady events the environment may emit
MaxEvents == 2
\* number of ticks of the clock
MaxClock == 1

(***************************************************************************)
(* Program constants                                                       *)
(***************************************************************************)
\* sqs.receive_message(MaxNumberOfMessages=5)
MaxNumberOfMessages == 5
\* best_score >= 0.5, scores in hundredths
DedupThreshold == 50

Docs == {"d1"}
TagConsumers == {"t1", "t2"}
EmbConsumers == {"e1", "e2"}
Consumers == TagConsumers \cup EmbConsumers
Queues == {"tagging", "embedding"}
QueueOf(c) == IF c \in TagConsumers THEN "tagging" ELSE "embedding"

PDF == "application/pdf"
PNG == "image/png"
MISSING == "<missing>"
BADID == "not-a-uuid"

Terminal == {"completed", "skipped", "failed"}

(***************************************************************************)
(* Blobs and the pure collaborators                                        *)
(***************************************************************************)
\* the blobs whose bytes PdfReader cannot parse (it raises)
PdfReaderRaises(s3_url) == s3_url = "s3://unreadable"

\* extract_text_from_pdf: the stripped page text; "" when PdfReader raises
extract_text_from_pdf(s3_url) ==
    CASE PdfReaderRaises(s3_url) -> ""
      [] s3_url = "s3://blank" -> ""
      [] s3_url = "s3://ai2" -> "text-ai2"
      [] s3_url = "s3://ml" -> "text-ml"
      [] OTHER -> ""

\* (extract_tags without its guard for empty text)
extract_tags_unguarded(text) ==
    CASE text = "text-ai2" -> <<"AI", "AI_">>
      [] OTHER -> <<"ML">>

\* extract_tags: [] for empty text, else the KeyBERT keyphrases of the text
\* ("AI_" stands for the candidate "AI ")
extract_tags(text) ==
    CASE text = "" -> << >>
      [] text = "text-ai2" -> <<"AI", "AI_">>
      [] text = "text-ml" -> <<"ML">>
      [] OTHER -> << >>

\* cosine similarity of the sentence embeddings of two tag texts, in hundredths
Cluster(t) == IF t \in {"AI", "AI_"} THEN "AI" ELSE t
pytorch_cos_sim(a, b) ==
    IF Cluster(a) = Cluster(b) THEN 100
    ELSE IF {Cluster(a), Cluster(b)} = {"AI", "ML"} THEN 50
    ELSE 10

\* the DocumentReady events the environment emits (detail of the SQS body);
\* detail = FALSE is a body without "detail"
Event(d, u, ct) == [detail |-> TRUE, document_id |-> d, s3_url |-> u, content_type |-> ct]
EventPool ==
    { Event("d1", "s3://ai2", PDF),
      Event("d1", "s3://ml", PDF),
      Event("d1", "s3://blank", PDF),
      Event("d1", "s3://unreadable", PDF),
      Event("d1", "s3://ai2", PNG),
      Event(BADID, "s3://ml", PDF),
      Event(MISSING, "s3://ml", PDF),
      Event("d1", "s3://ml", MISSING),
      [detail |-> FALSE, document_id |-> MISSING, s3_url |-> MISSING, content_type |-> MISSING] }

VARIABLES
    documents,            \* documents table: id -> row (exists, tag_status, embedding_status)
    tags,                 \* tags table: sequence of tag texts, a tag's id is its index
    document_tags,        \* document_tags table: bag of <<document_id, tag_id>> rows
    document_embeddings,  \* document_embeddings table: bag of <<document_id, chunk_text>> rows
    events,               \* the events emitted so far; event i is message i of both queues
    qstate,               \* qstate[q][i]: "visible", "inflight" or "deleted"
    pc,                   \* position of each consumer process
    batch,                \* messages of the current receive_message response, in order
    existing_tags,        \* tagging worker: result of get_all_tags()
    cands,                \* tagging worker: candidates not yet handled (tags[i:])
    associated_tag_ids,   \* tagging worker: associated_tag_ids
    new_tag_created,      \* tagging worker: new_tag_created
    tag_obj,              \* tagging worker: id of tag_obj being linked
    chunk,                \* embedding worker: extracted text to store
    api,                  \* the API's associate_tag_and_document request in progress
    run,                  \* per consumer: facts about the current invocation (history)
    lastRun,              \* per document: the last tagging run that ended completed (history)
    invoked,              \* per queue: the messages a worker was called for (history)
    now,                  \* the clock datetime.now(timezone.utc) reads
    session,              \* per consumer: the database session its invocation holds open
    cache,                \* the Redis entry "tags:all"
    reader,               \* a GET /tags request inside cache.get_or_set
    upload                \* a POST /documents request inside upload_document

vars == << documents, tags, document_tags, document_embeddings, events, qstate, pc, batch,
           existing_tags, cands, associated_tag_ids, new_tag_created, tag_obj, chunk,
           api, run, lastRun, invoked, now, session, cache, reader, upload >>

dbVars == << documents, tags, document_tags, document_embeddings >>
queueVars == << events, qstate >>
tagLocals == << existing_tags, cands, associated_tag_ids, new_tag_created, tag_obj >>
auxVars == << cache, reader, upload >>

(***************************************************************************)
(* Helpers                                                                 *)
(***************************************************************************)
RECURSIVE SortedSeq(_)
SortedSeq(S) ==
    IF S = {} THEN << >>
    ELSE LET m == CHOOSE x \in S : \A y \in S : x <= y
         IN <<m>> \o SortedSeq(S \ {m})

\* number of rows of bag b whose first column is d
RowsOf(b, d) == LET R == {r \in DOMAIN b : r[1] = d}
                IN BagCardinality([r \in R |-> b[r]])
\* (a foreign key without ON DELETE CASCADE)
WithoutDoc_kept(b, d) == b
\* bag b without the rows of document d (ON DELETE CASCADE)
WithoutDoc(b, d) == [r \in {x \in DOMAIN b : x[1] # d} |-> b[r]]
\* the rows of bag b whose first column is d
RecordsOf(b, d) == [r \in {x \in DOMAIN b : x[1] = d} |-> b[r]]
\* the tags a document is linked to
LinksOf(d) == {r[2] : r \in {x \in DOMAIN document_tags : x[1] = d}}

StatusField(c) == IF c \in TagConsumers THEN "tag_status" ELSE "embedding_status"
\* the timestamp column a DocumentUpdate sets together with a status column
StampField(field) ==
    IF field = "tag_status" THEN "tag_status_updated_at" ELSE "embedding_status_updated_at"

\* the message a consumer is handling and its detail
Cur(c) == Head(batch[c])
Msg(c) == events[Cur(c)]
KeyError(m) == m.document_id = MISSING \/ m.s3_url = MISSING \/ m.content_type = MISSING

\* update_document(document_id, DocumentUpdate(<axis>_status=..., ...)):
\* "raise" when uuid.UUID(document_id) raises, "notfound" when no row matches,
\* "ok" when the row is written and committed
UpdateOutcome(document_id) ==
    IF document_id \notin Docs THEN "raise"
    ELSE IF ~documents[document_id].exists THEN "notfound"
    ELSE "ok"
update_document_unstamped(document_id, field, status) ==
    IF UpdateOutcome(document_id) = "ok"
    THEN [documents EXCEPT ![document_id][field] = status]
    ELSE documents
update_document_wholerow(document_id, field, status) ==
    IF UpdateOutcome(document_id) = "ok"
    THEN [documents EXCEPT ![document_id].tag_status = status,
                           ![document_id].embedding_status = status,
                           ![document_id][StampField(field)] = now]
    ELSE documents
update_document(document_id, field, status) ==
    IF UpdateOutcome(document_id) = "ok"
    THEN [documents EXCEPT ![document_id][field] = status,
                           ![document_id][StampField(field)] = now]
    ELSE documents

\* a documents row as the upload flow leaves it
NewDocument == [exists |-> TRUE, tag_status |-> "pending", embedding_status |-> "pending",
                tag_status_updated_at |-> 0, embedding_status_updated_at |-> 0]

\* the best score a candidate reaches against a list of tag texts, 0 for no tag
BestScore(tag_text, texts) ==
    IF texts = << >> THEN 0
    ELSE LET S == {pytorch_cos_sim(tag_text, texts[i]) : i \in 1..Len(texts)}
         IN CHOOSE x \in S : \A y \in S : y <= x

NoRun == [first |-> "none", wrote |-> << >>, created |-> 0, linked |-> 0, fault |-> FALSE,
          invalidations |-> 0, downloaded |-> FALSE, extracted |-> FALSE, had_record |-> FALSE,
          prev |-> FALSE, prev_links |-> {}, status0 |-> "none", err |-> "none",
          unmatched |-> FALSE, failed_at |-> {}, done |-> {}, seen |-> << >>,
          resolved |-> "none", db_best |-> 0, args |-> << >>, new_tags |-> {},
          new_links |-> {}]
NoLastRun == [ok |-> FALSE, links |-> {}, ntags |-> 0, body |-> MISSING]

\* the status writes an invocation has made, after one more update_document call
Wrote(c, document_id, status) ==
    IF UpdateOutcome(document_id) = "ok" THEN Append(run[c].wrote, status) ELSE run[c].wrote

\* no session is open, "tags:all" is not cached, no API request is in progress
NoSession == "none"
NoEntry == [present |-> FALSE, value |-> << >>]
NoReader == [pc |-> "idle", result |-> << >>]
NoUpload == [pc |-> "idle", body |-> Event(MISSING, MISSING, MISSING), response |-> 0,
             emitted |-> FALSE]
InitAux ==
    /\ session = [c \in Consumers |-> NoSession]
    /\ cache = NoEntry
    /\ reader = NoReader
    /\ upload = NoUpload

Init ==
    /\ documents = [d \in Docs |-> NewDocument]
    /\ tags = << >>
    /\ document_tags = EmptyBag
    /\ document_embeddings = EmptyBag
    /\ events = << >>
    /\ qstate = [q \in Queues |-> << >>]
    /\ pc = [c \in Consumers |-> "poll"]
    /\ batch = [c \in Consumers |-> << >>]
    /\ existing_tags = [c \in TagConsumers |-> << >>]
    /\ cands = [c \in TagConsumers |-> << >>]
    /\ associated_tag_ids = [c \in TagConsumers |-> {}]
    /\ new_tag_created = [c \in TagConsumers |-> FALSE]
    /\ tag_obj = [c \in TagConsumers |-> 0]
    /\ chunk = [c \in EmbConsumers |-> ""]
    /\ api = [pc |-> "idle", document_id |-> "d1", tag_id |-> 0]
    /\ run = [c \in Consumers |-> NoRun]
    /\ lastRun = [d \in Docs |-> NoLastRun]
    /\ invoked = [q \in Queues |-> {}]
    /\ now = 0
    /\ InitAux

(***************************************************************************)
(* Environment: event emission, queue redelivery, document deletion        *)
(***************************************************************************)
\* A DocumentReady event reaches both queues (the rule has both as targets)
EmitDocumentReady(e) ==
    /\ Len(events) < MaxEvents
    /\ events' = Append(events, e)
    /\ qstate' = [q \in Queues |-> Append(qstate[q], "visible")]
    /\ UNCHANGED << dbVars, pc, batch, tagLocals, chunk, api, run, lastRun, invoked, now, session, auxVars >>

\* A received message that no consumer is handling any more and that was not
\* deleted becomes visible again when its visibility timeout ends
VisibilityTimeout(q, i) ==
    /\ i \in 1..Len(events)
    /\ qstate[q][i] = "inflight"
    /\ \A c \in Consumers : QueueOf(c) = q =>
           \A k \in 1..Len(batch[c]) : batch[c][k] # i
    /\ qstate' = [qstate EXCEPT ![q][i] = "visible"]
    /\ UNCHANGED << dbVars, events, pc, batch, tagLocals, chunk, api, run, lastRun, invoked, now, session, auxVars >>

\* time passes
Tick ==
    /\ now < MaxClock
    /\ now' = now + 1
    /\ UNCHANGED << dbVars, queueVars, pc, batch, tagLocals, chunk, api, run, lastRun,
                    invoked, session, auxVars >>

\* delete_document: the row goes, document_tags and document_embeddings cascade
delete_document(d) ==
    /\ documents[d].exists
    /\ documents' = [documents EXCEPT ![d].exists = FALSE]
    /\ document_tags' = WithoutDoc(document_tags, d)
    /\ document_embeddings' = WithoutDoc(document_embeddings, d)
    /\ lastRun' = [lastRun EXCEPT ![d] = NoLastRun]
    /\ UNCHANGED << tags, queueVars, pc, batch, tagLocals, chunk, api, run, invoked, now, session, auxVars >>

(***************************************************************************)
(* run_worker: the polling loop of either worker                           *)
(***************************************************************************)
AfterMessage(c) == IF Tail(batch[c]) = << >> THEN "poll" ELSE "next"

\* receive_message returned a non-empty batch of at most 5 messages
ReceiveMessages(c) ==
    /\ pc[c] = "poll"
    /\ \E S \in SUBSET {i \in 1..Len(events) : qstate[QueueOf(c)][i] = "visible"} :
         /\ S # {}
         /\ Cardinality(S) <= MaxNumberOfMessages
         /\ batch' = [batch EXCEPT ![c] = SortedSeq(S)]
         /\ qstate' = [qstate EXCEPT ![QueueOf(c)] =
                          [i \in 1..Len(events) |-> IF i \in S THEN "inflight" ELSE @[i]]]
    /\ pc' = [pc EXCEPT ![c] = "next"]
    /\ UNCHANGED << dbVars, events, tagLocals, chunk, api, run, lastRun, invoked, now, session, auxVars >>

\* a body without "detail": logged, then `continue` (the delete is not reached)
SkipMalformed(c) ==
    /\ pc[c] = "next"
    /\ ~Msg(c).detail
    /\ pc' = [pc EXCEPT ![c] = AfterMessage(c)]
    /\ batch' = [batch EXCEPT ![c] = Tail(@)]
    /\ UNCHANGED << dbVars, queueVars, tagLocals, chunk, api, run, lastRun, invoked, now, session, auxVars >>

\* db = SessionLocal(): a new Session object of the calling worker process
SessionLocal(c) == c

\* (the same call made for a body without "detail" as well)
Dispatch_any(c) ==
    /\ pc[c] = "next"
    /\ pc' = [pc EXCEPT ![c] = "start"]
    /\ LET d == Msg(c).document_id
           known == d \in Docs
       IN run' = [run EXCEPT ![c] =
              [NoRun EXCEPT
                 !.had_record = known /\ RowsOf(document_embeddings, d) >= 1,
                 !.prev = known /\ c \in TagConsumers /\ lastRun[d].ok
                          /\ lastRun[d].body = Msg(c) /\ lastRun[d].ntags = Len(tags),
                 !.prev_links = IF known THEN lastRun[d].links ELSE {},
                 !.status0 = IF known /\ documents[d].exists
                             THEN documents[d][StatusField(c)] ELSE "none",
                 !.args = << Msg(c).document_id, Msg(c).s3_url, Msg(c).content_type >>]]
    /\ invoked' = [invoked EXCEPT ![QueueOf(c)] = @ \cup {Cur(c)}]
    /\ session' = [session EXCEPT ![c] = SessionLocal(c)]
    /\ UNCHANGED << dbVars, queueVars, batch, tagLocals, chunk, api, lastRun, now, auxVars >>
\* process_message(event_detail) is called: a fresh session and fresh locals
Dispatch(c) ==
    /\ pc[c] = "next"
    /\ Msg(c).detail
    /\ pc' = [pc EXCEPT ![c] = "start"]
    /\ LET d == Msg(c).document_id
           known == d \in Docs
       IN run' = [run EXCEPT ![c] =
              [NoRun EXCEPT
                 !.had_record = known /\ RowsOf(document_embeddings, d) >= 1,
                 !.prev = known /\ c \in TagConsumers /\ lastRun[d].ok
                          /\ lastRun[d].body = Msg(c) /\ lastRun[d].ntags = Len(tags),
                 !.prev_links = IF known THEN lastRun[d].links ELSE {},
                 !.status0 = IF known /\ documents[d].exists
                             THEN documents[d][StatusField(c)] ELSE "none",
                 !.args = << Msg(c).document_id, Msg(c).s3_url, Msg(c).content_type >>]]
    /\ invoked' = [invoked EXCEPT ![QueueOf(c)] = @ \cup {Cur(c)}]
    /\ session' = [session EXCEPT ![c] = SessionLocal(c)]
    /\ UNCHANGED << dbVars, queueVars, batch, tagLocals, chunk, api, lastRun, now, auxVars >>

\* (the same step sending the message of a failed run to its queue again)
DeleteMessage_requeue(c) ==
    /\ pc[c] = "ret"
    /\ LET d == Msg(c).document_id
           q == QueueOf(c)
           retry == /\ d \in Docs /\ Len(events) < MaxEvents
                    /\ documents[d][StatusField(c)] = "failed"
           gone == [qstate EXCEPT ![q][Cur(c)] = "deleted"]
       IN IF retry
          THEN /\ events' = Append(events, Msg(c))
               /\ qstate' = [r \in Queues |->
                                Append(gone[r], IF r = q THEN "visible" ELSE "deleted")]
          ELSE /\ qstate' = gone
               /\ UNCHANGED events
    /\ batch' = [batch EXCEPT ![c] = Tail(@)]
    /\ pc' = [pc EXCEPT ![c] = AfterMessage(c)]
    /\ run' = [run EXCEPT ![c] = NoRun]
    /\ UNCHANGED << dbVars, tagLocals, chunk, api, lastRun, invoked, now, session, auxVars >>

\* process_message returned: sqs.delete_message, then the next message
DeleteMessage(c) ==
    /\ pc[c] = "ret"
    /\ qstate' = [qstate EXCEPT ![QueueOf(c)][Cur(c)] = "deleted"]
    /\ batch' = [batch EXCEPT ![c] = Tail(@)]
    /\ pc' = [pc EXCEPT ![c] = AfterMessage(c)]
    /\ run' = [run EXCEPT ![c] = NoRun]
    /\ UNCHANGED << dbVars, events, tagLocals, chunk, api, lastRun, invoked, now, session, auxVars >>

\* process_message raised: the loop's `except Exception` ends the batch
WorkerError(c) ==
    /\ pc[c] = "raised"
    /\ batch' = [batch EXCEPT ![c] = << >>]
    /\ pc' = [pc EXCEPT ![c] = "poll"]
    /\ run' = [run EXCEPT ![c] = NoRun]
    /\ UNCHANGED << dbVars, queueVars, tagLocals, chunk, api, lastRun, invoked, now, session, auxVars >>

(***************************************************************************)
(* Tagging worker: process_message                                         *)
(***************************************************************************)
\* (a session closed only when process_message returns normally)
Finally_leaking(c) ==
    session' = [session EXCEPT ![c] = IF pc'[c] = "ret" THEN NoSession ELSE @]
\* finally: db.close(), on the way out of process_message
Finally(c) ==
    session' = [session EXCEPT ![c] = IF pc'[c] \in {"ret", "raised"} THEN NoSession ELSE @]

\* locals of a tagging invocation that has ended
ResetTagLocals(c) ==
    /\ existing_tags' = [existing_tags EXCEPT ![c] = << >>]
    /\ cands' = [cands EXCEPT ![c] = << >>]
    /\ associated_tag_ids' = [associated_tag_ids EXCEPT ![c] = {}]
    /\ new_tag_created' = [new_tag_created EXCEPT ![c] = FALSE]
    /\ tag_obj' = [tag_obj EXCEPT ![c] = 0]

\* the matcher: the id of the first best-scoring tag of existing_tags when its
\* score reaches the threshold, 0 (None) otherwise or when there is no tag
MatchTag_never(tag_text, existing) == 0
\* (argmax returning the last of several maximal scores)
MatchTag_last(tag_text, existing) ==
    IF existing = << >> THEN 0
    ELSE LET best_idx == CHOOSE i \in 1..Len(existing) :
                 \A j \in 1..Len(existing) :
                     /\ pytorch_cos_sim(tag_text, existing[j]) <= pytorch_cos_sim(tag_text, existing[i])
                     /\ j > i => pytorch_cos_sim(tag_text, existing[j]) < pytorch_cos_sim(tag_text, existing[i])
         IN IF pytorch_cos_sim(tag_text, existing[best_idx]) >= DedupThreshold THEN best_idx ELSE 0
MatchTag(tag_text, existing) ==
    IF existing = << >> THEN 0
    ELSE LET best_idx == CHOOSE i \in 1..Len(existing) :
                 \A j \in 1..Len(existing) :
                     /\ pytorch_cos_sim(tag_text, existing[j]) <= pytorch_cos_sim(tag_text, existing[i])
                     /\ j < i => pytorch_cos_sim(tag_text, existing[j]) < pytorch_cos_sim(tag_text, existing[i])
         IN IF pytorch_cos_sim(tag_text, existing[best_idx]) >= DedupThreshold THEN best_idx ELSE 0

\* document_tags has (document_id, tag_id) as its primary key
PrimaryKeyFree_unconstrained(row) == TRUE
PrimaryKeyFree(row) == ~BagIn(row, document_tags)

\* (the same step going on to step 2 after DocumentNotFoundError)
TagSetProcessing_continues(c) ==
    /\ c \in TagConsumers /\ pc[c] = "start"
    /\ LET m == Msg(c)
           o == UpdateOutcome(m.document_id)
       IN IF KeyError(m)
          THEN /\ pc' = [pc EXCEPT ![c] = "except"]
               /\ run' = [run EXCEPT ![c].err = "KeyError"]
               /\ UNCHANGED documents
          ELSE /\ documents' = update_document(m.document_id, "tag_status", "processing")
               /\ pc' = [pc EXCEPT ![c] = IF o = "raise" THEN "except" ELSE "route"]
               /\ run' = [run EXCEPT ![c].first = IF o = "ok" THEN "found" ELSE o,
                                     ![c].err = IF o = "raise" THEN "ValueError" ELSE "none",
                                     ![c].wrote = Wrote(c, m.document_id, "processing")]
    /\ UNCHANGED << tags, document_tags, document_embeddings, queueVars, batch, tagLocals,
                    chunk, api, lastRun, invoked, now, auxVars >>
    /\ Finally(c)

\* Step 1: read the three fields, write tag_status = processing
TagSetProcessing(c) ==
    /\ c \in TagConsumers /\ pc[c] = "start"
    /\ LET m == Msg(c)
           o == UpdateOutcome(m.document_id)
       IN IF KeyError(m)
          THEN /\ pc' = [pc EXCEPT ![c] = "except"]
               /\ run' = [run EXCEPT ![c].err = "KeyError"]
               /\ UNCHANGED documents
          ELSE /\ documents' = update_document(m.document_id, "tag_status", "processing")
               /\ pc' = [pc EXCEPT ![c] = CASE o = "raise" -> "except"
                                            [] o = "notfound" -> "ret"
                                            [] OTHER -> "route"]
               /\ run' = [run EXCEPT ![c].first = IF o = "ok" THEN "found" ELSE o,
                                     ![c].err = IF o = "raise" THEN "ValueError" ELSE "none",
                                     ![c].wrote = Wrote(c, m.document_id, "processing")]
    /\ UNCHANGED << tags, document_tags, document_embeddings, queueVars, batch, tagLocals,
                    chunk, api, lastRun, invoked, now, auxVars >>
    /\ Finally(c)

\* (the same step writing completed)
TagSkipNonPdf_completed(c) ==
    /\ c \in TagConsumers /\ pc[c] = "route"
    /\ Msg(c).content_type # PDF
    /\ documents' = update_document(Msg(c).document_id, "tag_status", "completed")
    /\ run' = [run EXCEPT ![c].wrote = Wrote(c, Msg(c).document_id, "completed")]
    /\ pc' = [pc EXCEPT ![c] = "ret"]
    /\ UNCHANGED << tags, document_tags, document_embeddings, queueVars, batch, tagLocals,
                    chunk, api, lastRun, invoked, now, auxVars >>
    /\ Finally(c)

\* Step 2: content_type is not application/pdf: write skipped, return
TagSkipNonPdf(c) ==
    /\ c \in TagConsumers /\ pc[c] = "route"
    /\ Msg(c).content_type # PDF
    /\ documents' = update_document(Msg(c).document_id, "tag_status", "skipped")
    /\ run' = [run EXCEPT ![c].wrote = Wrote(c, Msg(c).document_id, "skipped")]
    /\ pc' = [pc EXCEPT ![c] = "ret"]
    /\ UNCHANGED << tags, document_tags, document_embeddings, queueVars, batch, tagLocals,
                    chunk, api, lastRun, invoked, now, auxVars >>
    /\ Finally(c)

\* (the same step returning without its status write)
TagDownloadFailed_unwritten(c) ==
    /\ c \in TagConsumers /\ pc[c] = "route"
    /\ Msg(c).content_type = PDF
    /\ run' = [run EXCEPT ![c].downloaded = TRUE]
    /\ pc' = [pc EXCEPT ![c] = "ret"]
    /\ UNCHANGED << dbVars, queueVars, batch, tagLocals, chunk, api, lastRun, invoked, now, auxVars >>
    /\ Finally(c)

\* Step 3, S3DownloadError: write failed, return
TagDownloadFailed(c) ==
    /\ c \in TagConsumers /\ pc[c] = "route"
    /\ Msg(c).content_type = PDF
    /\ documents' = update_document(Msg(c).document_id, "tag_status", "failed")
    /\ run' = [run EXCEPT ![c].wrote = Wrote(c, Msg(c).document_id, "failed"),
                          ![c].downloaded = TRUE, ![c].err = "S3DownloadError"]
    /\ pc' = [pc EXCEPT ![c] = "ret"]
    /\ UNCHANGED << tags, document_tags, document_embeddings, queueVars, batch, tagLocals,
                    chunk, api, lastRun, invoked, now, auxVars >>
    /\ Finally(c)

\* Steps 3-4: the blob is downloaded, text and candidates are extracted, and
\* get_all_tags() reads the tags table once for the whole invocation
TagExtract(c) ==
    /\ c \in TagConsumers /\ pc[c] = "route"
    /\ Msg(c).content_type = PDF
    /\ LET found == extract_tags(extract_text_from_pdf(Msg(c).s3_url))
       IN /\ cands' = [cands EXCEPT ![c] = found]
          /\ pc' = [pc EXCEPT ![c] = IF found = << >> THEN "finish" ELSE "loop"]
    /\ existing_tags' = [existing_tags EXCEPT ![c] = tags]
    /\ run' = [run EXCEPT ![c].downloaded = TRUE, ![c].extracted = TRUE,
                          ![c].unmatched =
                              \A k \in 1..Len(extract_tags(extract_text_from_pdf(Msg(c).s3_url))) :
                                  BestScore(extract_tags(extract_text_from_pdf(Msg(c).s3_url))[k], tags)
                                      < DedupThreshold]
    /\ UNCHANGED << dbVars, queueVars, batch, associated_tag_ids, new_tag_created, tag_obj,
                    chunk, api, lastRun, invoked, now, auxVars >>
    /\ Finally(c)

AfterCandidate(c) == IF Tail(cands[c]) = << >> THEN "finish" ELSE "loop"
\* the position in the candidate list of the candidate being handled
CandIndex(c) ==
    Len(extract_tags(extract_text_from_pdf(Msg(c).s3_url))) - Len(cands[c]) + 1

\* the candidate matches a tag of existing_tags: that tag is tag_obj
TagReuse(c) ==
    /\ c \in TagConsumers /\ pc[c] = "loop"
    /\ LET matched_tag == MatchTag(Head(cands[c]), existing_tags[c])
       IN /\ matched_tag # 0
          /\ tag_obj' = [tag_obj EXCEPT ![c] = matched_tag]
          /\ IF matched_tag \in associated_tag_ids[c]
             THEN /\ cands' = [cands EXCEPT ![c] = Tail(@)]
                  /\ pc' = [pc EXCEPT ![c] = AfterCandidate(c)]
             ELSE /\ pc' = [pc EXCEPT ![c] = "linkcheck"]
                  /\ UNCHANGED cands
    /\ run' = [run EXCEPT ![c].resolved = "reused",
                          ![c].db_best = BestScore(Head(cands[c]), tags),
                          ![c].done = IF MatchTag(Head(cands[c]), existing_tags[c])
                                           \in associated_tag_ids[c]
                                      THEN @ \cup {CandIndex(c)} ELSE @]
    /\ UNCHANGED << dbVars, queueVars, batch, existing_tags, associated_tag_ids,
                    new_tag_created, chunk, api, lastRun, invoked, now, auxVars >>
    /\ Finally(c)

\* (create_tag rewriting the text of the newest Tag row when there is one)
create_tag_renaming(c) ==
    /\ c \in TagConsumers /\ pc[c] = "loop"
    /\ MatchTag(Head(cands[c]), existing_tags[c]) = 0
    /\ tags' = IF tags = << >> THEN <<Head(cands[c])>>
               ELSE [tags EXCEPT ![Len(tags)] = Head(cands[c])]
    /\ tag_obj' = [tag_obj EXCEPT ![c] = IF tags = << >> THEN 1 ELSE Len(tags)]
    /\ new_tag_created' = [new_tag_created EXCEPT ![c] = TRUE]
    /\ run' = [run EXCEPT ![c].created = @ + 1, ![c].resolved = "created",
                          ![c].db_best = BestScore(Head(cands[c]), tags)]
    /\ pc' = [pc EXCEPT ![c] = "linkcheck"]
    /\ UNCHANGED << documents, document_tags, document_embeddings, queueVars, batch,
                    existing_tags, cands, associated_tag_ids, chunk, api, lastRun, invoked, now, auxVars >>
    /\ Finally(c)

\* no match: create_tag(tag_text) inserts and commits a new Tag row
create_tag(c) ==
    /\ c \in TagConsumers /\ pc[c] = "loop"
    /\ MatchTag(Head(cands[c]), existing_tags[c]) = 0
    /\ tags' = Append(tags, Head(cands[c]))
    /\ tag_obj' = [tag_obj EXCEPT ![c] = Len(tags) + 1]
    /\ new_tag_created' = [new_tag_created EXCEPT ![c] = TRUE]
    /\ run' = [run EXCEPT ![c].created = @ + 1, ![c].resolved = "created",
                          ![c].db_best = BestScore(Head(cands[c]), tags),
                          ![c].new_tags = @ \cup {Len(tags) + 1}]
    /\ pc' = [pc EXCEPT ![c] = "linkcheck"]
    /\ UNCHANGED << documents, document_tags, document_embeddings, queueVars, batch,
                    existing_tags, cands, associated_tag_ids, chunk, api, lastRun, invoked, now, auxVars >>
    /\ Finally(c)

\* (the same failure ending the invocation in the except handler)
TagCreationFailed_fatal(c) ==
    /\ c \in TagConsumers /\ pc[c] = "loop"
    /\ MatchTag(Head(cands[c]), existing_tags[c]) = 0
    /\ pc' = [pc EXCEPT ![c] = "except"]
    /\ run' = [run EXCEPT ![c].fault = TRUE, ![c].resolved = "skipped",
                          ![c].failed_at = @ \cup {CandIndex(c)},
                          ![c].err = "TagCreationError"]
    /\ UNCHANGED << dbVars, queueVars, batch, tagLocals, chunk, api, lastRun, invoked, now, auxVars >>
    /\ Finally(c)

\* no match and create_tag raises TagCreationError: the candidate is skipped
TagCreationFailed(c) ==
    /\ c \in TagConsumers /\ pc[c] = "loop"
    /\ MatchTag(Head(cands[c]), existing_tags[c]) = 0
    /\ cands' = [cands EXCEPT ![c] = Tail(@)]
    /\ pc' = [pc EXCEPT ![c] = AfterCandidate(c)]
    /\ run' = [run EXCEPT ![c].fault = TRUE, ![c].resolved = "skipped",
                          ![c].failed_at = @ \cup {CandIndex(c)},
                          ![c].db_best = BestScore(Head(cands[c]), tags)]
    /\ UNCHANGED << dbVars, queueVars, batch, existing_tags, associated_tag_ids,
                    new_tag_created, tag_obj, chunk, api, lastRun, invoked, now, auxVars >>
    /\ Finally(c)

\* link_document_tag, its queries: the document, the tag, an existing link
LinkCheck(c) ==
    /\ c \in TagConsumers /\ pc[c] = "linkcheck"
    /\ LET d == Msg(c).document_id
       IN IF ~documents[d].exists
          THEN /\ pc' = [pc EXCEPT ![c] = "except"]
               /\ run' = [run EXCEPT ![c].err = "DocumentNotFoundError"]
               /\ UNCHANGED << cands, associated_tag_ids >>
          ELSE IF BagIn(<<d, tag_obj[c]>>, document_tags)
          THEN /\ associated_tag_ids' = [associated_tag_ids EXCEPT ![c] = @ \cup {tag_obj[c]}]
               /\ cands' = [cands EXCEPT ![c] = Tail(@)]
               /\ pc' = [pc EXCEPT ![c] = AfterCandidate(c)]
               /\ run' = [run EXCEPT ![c].done = @ \cup {CandIndex(c)}]
          ELSE /\ pc' = [pc EXCEPT ![c] = "linkinsert"]
               /\ UNCHANGED << cands, associated_tag_ids, run >>
    /\ UNCHANGED << dbVars, queueVars, batch, existing_tags, new_tag_created, tag_obj,
                    chunk, api, lastRun, invoked, now, auxVars >>
    /\ Finally(c)

\* link_document_tag, its insert and commit; a rejected insert raises
\* DocumentTagLinkError
LinkInsert(c) ==
    /\ c \in TagConsumers /\ pc[c] = "linkinsert"
    /\ LET d == Msg(c).document_id
           row == <<d, tag_obj[c]>>
       IN IF documents[d].exists /\ PrimaryKeyFree(row)
          THEN /\ document_tags' = document_tags (+) SetToBag({row})
               /\ associated_tag_ids' = [associated_tag_ids EXCEPT ![c] = @ \cup {tag_obj[c]}]
               /\ cands' = [cands EXCEPT ![c] = Tail(@)]
               /\ pc' = [pc EXCEPT ![c] = AfterCandidate(c)]
               /\ run' = [run EXCEPT ![c].linked = @ + 1,
                                     ![c].done = @ \cup {CandIndex(c)},
                                     ![c].new_links = @ \cup {tag_obj[c]}]
          ELSE /\ pc' = [pc EXCEPT ![c] = "except"]
               /\ run' = [run EXCEPT ![c].err = "DocumentTagLinkError"]
               /\ UNCHANGED << document_tags, cands, associated_tag_ids >>
    /\ UNCHANGED << documents, tags, document_embeddings, queueVars, batch, existing_tags,
                    new_tag_created, tag_obj, chunk, api, lastRun, invoked, now, auxVars >>
    /\ Finally(c)

\* if new_tag_created: cache.delete("tags:all")
TagInvalidateCache(c) ==
    /\ c \in TagConsumers /\ pc[c] = "finish"
    /\ new_tag_created[c]
    /\ run' = [run EXCEPT ![c].invalidations = @ + 1]
    /\ cache' = NoEntry
    /\ pc' = [pc EXCEPT ![c] = "complete"]
    /\ UNCHANGED << dbVars, queueVars, batch, tagLocals, chunk, api, lastRun, invoked, now,
                    reader, upload >>
    /\ Finally(c)

\* Step 7: write tag_status = completed
TagCompleted(c) ==
    /\ c \in TagConsumers
    /\ pc[c] = "complete" \/ (pc[c] = "finish" /\ ~new_tag_created[c])
    /\ LET d == Msg(c).document_id
       IN /\ documents' = update_document(d, "tag_status", "completed")
          /\ run' = [run EXCEPT ![c].wrote = Wrote(c, d, "completed")]
          /\ lastRun' = IF UpdateOutcome(d) = "ok" /\ ~run[c].fault
                        THEN [lastRun EXCEPT ![d] = [ok |-> TRUE, links |-> LinksOf(d),
                                                     ntags |-> Len(tags),
                                                     body |-> Msg(c)]]
                        ELSE lastRun
    /\ pc' = [pc EXCEPT ![c] = "ret"]
    /\ ResetTagLocals(c)
    /\ UNCHANGED << tags, document_tags, document_embeddings, queueVars, batch, chunk, api,
                    invoked, now, auxVars >>
    /\ Finally(c)

\* (the except handler deleting "tags:all" as well)
TagFailed_invalidating(c) ==
    /\ c \in TagConsumers /\ pc[c] = "except"
    /\ LET d == Msg(c).document_id
       IN /\ documents' = update_document(d, "tag_status", "failed")
          /\ run' = [run EXCEPT ![c].wrote = Wrote(c, d, "failed"),
                                ![c].invalidations = @ + 1]
          /\ pc' = [pc EXCEPT ![c] = IF UpdateOutcome(d) = "raise" THEN "raised" ELSE "ret"]
    /\ ResetTagLocals(c)
    /\ UNCHANGED << tags, document_tags, document_embeddings, queueVars, batch, chunk, api,
                    lastRun, invoked, now, auxVars >>
    /\ Finally(c)
\* except Exception: write tag_status = failed for message_body.get("document_id");
\* only DocumentNotFoundError and DocumentUpdateError are caught around that write
TagFailed(c) ==
    /\ c \in TagConsumers /\ pc[c] = "except"
    /\ LET d == Msg(c).document_id
       IN /\ documents' = update_document(d, "tag_status", "failed")
          /\ run' = [run EXCEPT ![c].wrote = Wrote(c, d, "failed")]
          /\ pc' = [pc EXCEPT ![c] = IF UpdateOutcome(d) = "raise" THEN "raised" ELSE "ret"]
    /\ ResetTagLocals(c)
    /\ UNCHANGED << tags, document_tags, document_embeddings, queueVars, batch, chunk, api,
                    lastRun, invoked, now, auxVars >>
    /\ Finally(c)

(***************************************************************************)
(* Embedding worker: process_message                                       *)
(***************************************************************************)
\* (the same step without its status write)
EmbSetProcessing_unwritten(c) ==
    /\ c \in EmbConsumers /\ pc[c] = "start"
    /\ LET m == Msg(c)
           o == UpdateOutcome(m.document_id)
       IN IF KeyError(m)
          THEN /\ pc' = [pc EXCEPT ![c] = "except"]
               /\ run' = [run EXCEPT ![c].err = "KeyError"]
          ELSE /\ pc' = [pc EXCEPT ![c] = CASE o = "raise" -> "except"
                                            [] o = "notfound" -> "ret"
                                            [] OTHER -> "route"]
               /\ run' = [run EXCEPT ![c].first = IF o = "ok" THEN "found" ELSE o,
                                     ![c].err = IF o = "raise" THEN "ValueError" ELSE "none"]
    /\ UNCHANGED << dbVars, queueVars, batch, tagLocals, chunk, api, lastRun, invoked, now, auxVars >>
    /\ Finally(c)

\* Step 1: read the three fields, write embedding_status = processing
EmbSetProcessing(c) ==
    /\ c \in EmbConsumers /\ pc[c] = "start"
    /\ LET m == Msg(c)
           o == UpdateOutcome(m.document_id)
       IN IF KeyError(m)
          THEN /\ pc' = [pc EXCEPT ![c] = "except"]
               /\ run' = [run EXCEPT ![c].err = "KeyError"]
               /\ UNCHANGED documents
          ELSE /\ documents' = update_document(m.document_id, "embedding_status", "processing")
               /\ pc' = [pc EXCEPT ![c] = CASE o = "raise" -> "except"
                                            [] o = "notfound" -> "ret"
                                            [] OTHER -> "route"]
               /\ run' = [run EXCEPT ![c].first = IF o = "ok" THEN "found" ELSE o,
                                     ![c].err = IF o = "raise" THEN "ValueError" ELSE "none",
                                     ![c].wrote = Wrote(c, m.document_id, "processing")]
    /\ UNCHANGED << tags, document_tags, document_embeddings, queueVars, batch, tagLocals,
                    chunk, api, lastRun, invoked, now, auxVars >>
    /\ Finally(c)

\* Step 2: content_type is not application/pdf: write skipped, return
EmbSkipNonPdf(c) ==
    /\ c \in EmbConsumers /\ pc[c] = "route"
    /\ Msg(c).content_type # PDF
    /\ documents' = update_document(Msg(c).document_id, "embedding_status", "skipped")
    /\ run' = [run EXCEPT ![c].wrote = Wrote(c, Msg(c).document_id, "skipped")]
    /\ pc' = [pc EXCEPT ![c] = "ret"]
    /\ UNCHANGED << tags, document_tags, document_embeddings, queueVars, batch, tagLocals,
                    chunk, api, lastRun, invoked, now, auxVars >>
    /\ Finally(c)

\* (the same step going on to the except handler instead of returning)
EmbDownloadFailed_reraised(c) ==
    /\ c \in EmbConsumers /\ pc[c] = "route"
    /\ Msg(c).content_type = PDF
    /\ documents' = update_document(Msg(c).document_id, "embedding_status", "failed")
    /\ run' = [run EXCEPT ![c].wrote = Wrote(c, Msg(c).document_id, "failed"),
                          ![c].downloaded = TRUE, ![c].err = "S3DownloadError"]
    /\ pc' = [pc EXCEPT ![c] = "except"]
    /\ UNCHANGED << tags, document_tags, document_embeddings, queueVars, batch, tagLocals,
                    chunk, api, lastRun, invoked, now, auxVars >>
    /\ Finally(c)

\* Step 3, S3DownloadError: write failed, return
EmbDownloadFailed(c) ==
    /\ c \in EmbConsumers /\ pc[c] = "route"
    /\ Msg(c).content_type = PDF
    /\ documents' = update_document(Msg(c).document_id, "embedding_status", "failed")
    /\ run' = [run EXCEPT ![c].wrote = Wrote(c, Msg(c).document_id, "failed"),
                          ![c].downloaded = TRUE, ![c].err = "S3DownloadError"]
    /\ pc' = [pc EXCEPT ![c] = "ret"]
    /\ UNCHANGED << tags, document_tags, document_embeddings, queueVars, batch, tagLocals,
                    chunk, api, lastRun, invoked, now, auxVars >>
    /\ Finally(c)

\* Steps 3-4: the blob is downloaded and its text extracted; empty text is
\* written as skipped, other text is embedded
EmbExtract(c) ==
    /\ c \in EmbConsumers /\ pc[c] = "route"
    /\ Msg(c).content_type = PDF
    /\ LET text == extract_text_from_pdf(Msg(c).s3_url)
       IN IF text = ""
          THEN /\ documents' = update_document(Msg(c).document_id, "embedding_status", "skipped")
               /\ run' = [run EXCEPT ![c].wrote = Wrote(c, Msg(c).document_id, "skipped"),
                                     ![c].downloaded = TRUE, ![c].extracted = TRUE]
               /\ pc' = [pc EXCEPT ![c] = "ret"]
               /\ UNCHANGED chunk
          ELSE /\ chunk' = [chunk EXCEPT ![c] = text]
               /\ run' = [run EXCEPT ![c].downloaded = TRUE, ![c].extracted = TRUE]
               /\ pc' = [pc EXCEPT ![c] = "createcheck"]
               /\ UNCHANGED documents
    /\ UNCHANGED << tags, document_tags, document_embeddings, queueVars, batch, tagLocals,
                    api, lastRun, invoked, now, auxVars >>
    /\ Finally(c)

\* create_chunk_embedding, its queries: the document, an existing embedding
ExistingEmbedding_ignored(d) == FALSE
ExistingEmbedding(d) == RowsOf(document_embeddings, d) >= 1
CreateCheck(c) ==
    /\ c \in EmbConsumers /\ pc[c] = "createcheck"
    /\ LET d == Msg(c).document_id
       IN IF ~documents[d].exists
          THEN /\ pc' = [pc EXCEPT ![c] = "except"]
               /\ run' = [run EXCEPT ![c].err = "DocumentNotFoundError"]
          ELSE IF ExistingEmbedding(d)
          THEN /\ pc' = [pc EXCEPT ![c] = "except"]
               /\ run' = [run EXCEPT ![c].err = "DocumentEmbeddingCreationError",
                                     ![c].seen = RecordsOf(document_embeddings, d)]
          ELSE /\ pc' = [pc EXCEPT ![c] = "createinsert"]
               /\ UNCHANGED run
    /\ UNCHANGED << dbVars, queueVars, batch, tagLocals, chunk, api, lastRun, invoked, now, auxVars >>
    /\ Finally(c)

\* create_chunk_embedding, its insert and commit; document_id is a foreign key
\* and carries no unique constraint
CreateInsert(c) ==
    /\ c \in EmbConsumers /\ pc[c] = "createinsert"
    /\ LET d == Msg(c).document_id
       IN IF documents[d].exists
          THEN /\ document_embeddings' = document_embeddings (+) SetToBag({<<d, chunk[c]>>})
               /\ pc' = [pc EXCEPT ![c] = "complete"]
               /\ run' = [run EXCEPT ![c].created = @ + 1]
          ELSE /\ pc' = [pc EXCEPT ![c] = "except"]
               /\ run' = [run EXCEPT ![c].err = "DocumentEmbeddingCreationError"]
               /\ UNCHANGED document_embeddings
    /\ UNCHANGED << documents, tags, document_tags, queueVars, batch, tagLocals, chunk, api,
                    lastRun, invoked, now, auxVars >>
    /\ Finally(c)

\* Step 6: write embedding_status = completed
EmbCompleted(c) ==
    /\ c \in EmbConsumers /\ pc[c] = "complete"
    /\ documents' = update_document(Msg(c).document_id, "embedding_status", "completed")
    /\ run' = [run EXCEPT ![c].wrote = Wrote(c, Msg(c).document_id, "completed")]
    /\ pc' = [pc EXCEPT ![c] = "ret"]
    /\ chunk' = [chunk EXCEPT ![c] = ""]
    /\ UNCHANGED << tags, document_tags, document_embeddings, queueVars, batch, tagLocals,
                    api, lastRun, invoked, now, auxVars >>
    /\ Finally(c)

\* (the same handler writing completed)
EmbFailed_completed(c) ==
    /\ c \in EmbConsumers /\ pc[c] = "except"
    /\ LET d == Msg(c).document_id
       IN /\ documents' = update_document(d, "embedding_status", "completed")
          /\ run' = [run EXCEPT ![c].wrote = Wrote(c, d, "completed")]
          /\ pc' = [pc EXCEPT ![c] = IF UpdateOutcome(d) = "raise" THEN "raised" ELSE "ret"]
    /\ chunk' = [chunk EXCEPT ![c] = ""]
    /\ UNCHANGED << tags, document_tags, document_embeddings, queueVars, batch, tagLocals,
                    api, lastRun, invoked, now, auxVars >>
    /\ Finally(c)

\* except Exception: write embedding_status = failed for
\* message_body.get("document_id"); only DocumentNotFoundError and
\* DocumentUpdateError are caught around that write
EmbFailed(c) ==
    /\ c \in EmbConsumers /\ pc[c] = "except"
    /\ LET d == Msg(c).document_id
       IN /\ documents' = update_document(d, "embedding_status", "failed")
          /\ run' = [run EXCEPT ![c].wrote = Wrote(c, d, "failed")]
          /\ pc' = [pc EXCEPT ![c] = IF UpdateOutcome(d) = "raise" THEN "raised" ELSE "ret"]
    /\ chunk' = [chunk EXCEPT ![c] = ""]
    /\ UNCHANGED << tags, document_tags, document_embeddings, queueVars, batch, tagLocals,
                    api, lastRun, invoked, now, auxVars >>
    /\ Finally(c)

(***************************************************************************)
(* API: associate_tag_and_document calls link_document_tag                 *)
(***************************************************************************)
ApiLinkCheck(d, t) ==
    /\ api.pc = "idle"
    /\ documents[d].exists
    /\ t \in 1..Len(tags)
    /\ ~BagIn(<<d, t>>, document_tags)
    /\ api' = [pc |-> "insert", document_id |-> d, tag_id |-> t]
    /\ UNCHANGED << dbVars, queueVars, pc, batch, tagLocals, chunk, run, lastRun, invoked, now, session, auxVars >>

ApiLinkInsert ==
    /\ api.pc = "insert"
    /\ LET row == <<api.document_id, api.tag_id>>
       IN IF documents[api.document_id].exists /\ PrimaryKeyFree(row)
          THEN /\ document_tags' = document_tags (+) SetToBag({row})
               /\ lastRun' = [lastRun EXCEPT ![api.document_id] = NoLastRun]
          ELSE UNCHANGED << document_tags, lastRun >>
    /\ api' = [pc |-> "idle", document_id |-> "d1", tag_id |-> 0]
    /\ UNCHANGED << documents, tags, document_embeddings, queueVars, pc, batch, tagLocals,
                    chunk, run, invoked, now, session, auxVars >>

\* PATCH /documents/{id}: update_document with the fields the request body
\* sets; tag_status and embedding_status are fields of DocumentUpdate, the
\* other fields of the body are not part of the modelled row
PatchBodies ==
    { [tag_status |-> t, embedding_status |-> e] :
          t \in {"unset", "pending", "completed"}, e \in {"unset", "pending", "completed"} }
partial_update_document(d, body) ==
    /\ documents[d].exists
    /\ documents' = [documents EXCEPT
           ![d].tag_status = IF body.tag_status = "unset" THEN @ ELSE body.tag_status,
           ![d].embedding_status =
               IF body.embedding_status = "unset" THEN @ ELSE body.embedding_status]
    /\ UNCHANGED << tags, document_tags, document_embeddings, queueVars, pc, batch,
                    tagLocals, chunk, api, run, lastRun, invoked, now, session, auxVars >>

(***************************************************************************)
(* API: GET /tags through cache.get_or_set                                 *)
(***************************************************************************)
\* cached = self.get(key): a hit returns the cached list, a miss goes on
CacheGet ==
    /\ reader.pc = "idle"
    /\ reader' = IF cache.present THEN [pc |-> "idle", result |-> cache.value]
                 ELSE [pc |-> "miss", result |-> << >>]
    /\ UNCHANGED << dbVars, queueVars, pc, batch, tagLocals, chunk, api, run, lastRun,
                    invoked, now, session, cache, upload >>

\* result = fallback_func(): tag_interface.get_all_tags() reads the tags table
FetchTagsFromDb ==
    /\ reader.pc = "miss"
    /\ reader' = [pc |-> "fetched", result |-> tags]
    /\ UNCHANGED << dbVars, queueVars, pc, batch, tagLocals, chunk, api, run, lastRun,
                    invoked, now, session, cache, upload >>

\* self.set(key, result, ttl), then the result is returned
CacheSet ==
    /\ reader.pc = "fetched"
    /\ cache' = [present |-> TRUE, value |-> reader.result]
    /\ reader' = [reader EXCEPT !.pc = "idle"]
    /\ UNCHANGED << dbVars, queueVars, pc, batch, tagLocals, chunk, api, run, lastRun,
                    invoked, now, session, upload >>

\* the entry's ttl runs out
CacheExpire ==
    /\ cache.present
    /\ cache' = NoEntry
    /\ UNCHANGED << dbVars, queueVars, pc, batch, tagLocals, chunk, api, run, lastRun,
                    invoked, now, session, reader, upload >>

(***************************************************************************)
(* API: POST /documents, upload_document                                   *)
(***************************************************************************)
\* the documents a client uploads: the stored file and its content type
UploadPool == { e \in EventPool : e.detail /\ e.document_id \in Docs /\ ~KeyError(e) }
\* what client.put_events can do: return with the entry accepted, return
\* with FailedEntryCount = 1, or raise ClientError
PutEventsOutcomes == {"accepted", "failed_entry", "ClientError"}

\* s3_interface.upload_file and document_interface.create_document: the row
\* is added and committed with both statuses pending
create_document(e) ==
    /\ upload.pc = "idle"
    /\ ~documents[e.document_id].exists
    /\ documents' = [documents EXCEPT ![e.document_id] = NewDocument]
    /\ upload' = [upload EXCEPT !.pc = "created", !.body = e]
    /\ UNCHANGED << tags, document_tags, document_embeddings, queueVars, pc, batch,
                    tagLocals, chunk, api, run, lastRun, invoked, now, session, cache, reader >>

\* emit_document_ready_event, then `return document`; EventBridgeEmitError
\* (raised on ClientError only) becomes HTTPException(500)
emit_document_ready_event(o) ==
    /\ upload.pc = "created"
    /\ IF o = "accepted"
       THEN /\ events' = Append(events, upload.body)
            /\ qstate' = [q \in Queues |-> Append(qstate[q], "visible")]
            /\ upload' = [upload EXCEPT !.pc = "done", !.response = 200, !.emitted = TRUE]
       ELSE /\ upload' = [upload EXCEPT !.pc = "done",
                                        !.response = IF o = "ClientError" THEN 500 ELSE 200]
            /\ UNCHANGED queueVars
    /\ UNCHANGED << dbVars, pc, batch, tagLocals, chunk, api, run, lastRun, invoked, now,
                    session, cache, reader >>

\* the rule delivers an accepted event to its targets at least once
DeliverAgain ==
    /\ upload.emitted
    /\ Len(events) < MaxEvents
    /\ events' = Append(events, upload.body)
    /\ qstate' = [q \in Queues |-> Append(qstate[q], "visible")]
    /\ UNCHANGED << dbVars, pc, batch, tagLocals, chunk, api, run, lastRun, invoked, now,
                    session, auxVars >>

(***************************************************************************)
(* Specifications                                                          *)
(***************************************************************************)
Environment ==
    \/ \E e \in EventPool : EmitDocumentReady(e)
    \/ \E q \in Queues, i \in 1..MaxEvents : VisibilityTimeout(q, i)
    \/ \E d \in Docs : delete_document(d)

Loop(c) ==
    \/ ReceiveMessages(c)
    \/ SkipMalformed(c)
    \/ Dispatch(c)
    \/ DeleteMessage(c)
    \/ WorkerError(c)

TaggingWorker(c) ==
    \/ TagSetProcessing(c)
    \/ TagSkipNonPdf(c)
    \/ TagDownloadFailed(c)
    \/ TagExtract(c)
    \/ TagReuse(c)
    \/ create_tag(c)
    \/ TagCreationFailed(c)
    \/ LinkCheck(c)
    \/ LinkInsert(c)
    \/ TagInvalidateCache(c)
    \/ TagCompleted(c)
    \/ TagFailed(c)

EmbeddingWorker(c) ==
    \/ EmbSetProcessing(c)
    \/ EmbSkipNonPdf(c)
    \/ EmbDownloadFailed(c)
    \/ EmbExtract(c)
    \/ CreateCheck(c)
    \/ CreateInsert(c)
    \/ EmbCompleted(c)
    \/ EmbFailed(c)

\* the deployment as written: one tagging loop and one embedding loop
Next ==
    \/ Environment
    \/ Loop("t1") \/ TaggingWorker("t1")
    \/ Loop("e1") \/ EmbeddingWorker("e1")
Spec == Init /\ [][Next]_vars

\* several tagging consumers on the tagging queue, and the API's link call
NextTag ==
    \/ Environment
    \/ \E c \in TagConsumers : Loop(c) \/ TaggingWorker(c)
    \/ \E d \in Docs, t \in 1..(2 * MaxEvents) : ApiLinkCheck(d, t)
    \/ ApiLinkInsert
SpecTag == Init /\ [][NextTag]_vars

\* several embedding consumers on the embedding queue
NextEmb ==
    \/ Environment
    \/ \E c \in EmbConsumers : Loop(c) \/ EmbeddingWorker(c)
SpecEmb == Init /\ [][NextEmb]_vars

\* the embedding loop next to clients of the documents API
NextApi ==
    \/ Environment
    \/ Loop("e1") \/ EmbeddingWorker("e1")
    \/ \E d \in Docs, body \in PatchBodies : partial_update_document(d, body)
SpecApi == Init /\ [][NextApi]_vars

\* the two loops with time passing, every message delivered once
NextClock ==
    \/ \E e \in EventPool : EmitDocumentReady(e)
    \/ Loop("t1") \/ TaggingWorker("t1")
    \/ Loop("e1") \/ EmbeddingWorker("e1")
    \/ Tick
SpecClock == Init /\ [][NextClock]_vars

\* the tagging consumers started on a tags table that already holds tags
TagTables == { << >>, <<"AI", "AI_">>, <<"ML", "AI">>, <<"AI", "ML">>, <<"ML", "ML">> }
InitMatch ==
    /\ tags \in TagTables
    /\ documents = [d \in Docs |-> NewDocument]
    /\ document_tags = EmptyBag
    /\ document_embeddings = EmptyBag
    /\ events = << >>
    /\ qstate = [q \in Queues |-> << >>]
    /\ pc = [c \in Consumers |-> "poll"]
    /\ batch = [c \in Consumers |-> << >>]
    /\ existing_tags = [c \in TagConsumers |-> << >>]
    /\ cands = [c \in TagConsumers |-> << >>]
    /\ associated_tag_ids = [c \in TagConsumers |-> {}]
    /\ new_tag_created = [c \in TagConsumers |-> FALSE]
    /\ tag_obj = [c \in TagConsumers |-> 0]
    /\ chunk = [c \in EmbConsumers |-> ""]
    /\ api = [pc |-> "idle", document_id |-> "d1", tag_id |-> 0]
    /\ run = [c \in Consumers |-> NoRun]
    /\ lastRun = [d \in Docs |-> NoLastRun]
    /\ invoked = [q \in Queues |-> {}]
    /\ now = 0
    /\ InitAux
NextMatch ==
    \/ \E e \in EventPool : EmitDocumentReady(e)
    \/ \E c \in TagConsumers : Loop(c) \/ TaggingWorker(c)
SpecMatch == InitMatch /\ [][NextMatch]_vars

\* the tagging loop next to clients that list the tags
NextCache ==
    \/ \E e \in EventPool : EmitDocumentReady(e)
    \/ Loop("t1") \/ TaggingWorker("t1")
    \/ CacheGet \/ FetchTagsFromDb \/ CacheSet \/ CacheExpire
SpecCache == Init /\ [][NextCache]_vars

\* the two loops fed by uploads only: the document does not exist until it
\* is uploaded, no event is emitted but by upload_document, and a client
\* may delete the document
InitUpload ==
    /\ tags \in {<< >>, <<"ML">>}
    /\ documents = [d \in Docs |-> [NewDocument EXCEPT !.exists = FALSE]]
    /\ document_tags = EmptyBag
    /\ document_embeddings = EmptyBag
    /\ events = << >>
    /\ qstate = [q \in Queues |-> << >>]
    /\ pc = [c \in Consumers |-> "poll"]
    /\ batch = [c \in Consumers |-> << >>]
    /\ existing_tags = [c \in TagConsumers |-> << >>]
    /\ cands = [c \in TagConsumers |-> << >>]
    /\ associated_tag_ids = [c \in TagConsumers |-> {}]
    /\ new_tag_created = [c \in TagConsumers |-> FALSE]
    /\ tag_obj = [c \in TagConsumers |-> 0]
    /\ chunk = [c \in EmbConsumers |-> ""]
    /\ api = [pc |-> "idle", document_id |-> "d1", tag_id |-> 0]
    /\ run = [c \in Consumers |-> NoRun]
    /\ lastRun = [d \in Docs |-> NoLastRun]
    /\ invoked = [q \in Queues |-> {}]
    /\ now = 0
    /\ InitAux
NextUpload ==
    \/ \E e \in UploadPool : create_document(e)
    \/ \E o \in PutEventsOutcomes : emit_document_ready_event(o)
    \/ DeliverAgain
    \/ \E d \in Docs : delete_document(d)
    \/ \E c \in {"t1", "e1"} : ReceiveMessages(c) \/ Dispatch(c) \/ DeleteMessage(c)
    \/ TaggingWorker("t1")
    \/ EmbeddingWorker("e1")
SpecUpload == InitUpload /\ [][NextUpload]_vars

\* the two loops on queues that also receive bodies without the envelope
BareBody == [detail |-> FALSE, document_id |-> "d1", s3_url |-> "s3://ml", content_type |-> PDF]
NextShape ==
    \/ \E e \in EventPool \cup {BareBody} : EmitDocumentReady(e)
    \/ Loop("t1") \/ TaggingWorker("t1")
    \/ Loop("e1") \/ EmbeddingWorker("e1")
SpecShape == Init /\ [][NextShape]_vars

\* the deployment with its scheduling: each loop keeps running (while True,
\* every call returns) and an abandoned message's visibility timeout ends
Fairness ==
    /\ \A c \in {"t1", "e1"} : WF_vars(Loop(c))
    /\ WF_vars(TaggingWorker("t1"))
    /\ WF_vars(EmbeddingWorker("e1"))
    /\ \A q \in Queues : \A i \in 1..MaxEvents : WF_vars(VisibilityTimeout(q, i))
SpecLive == Init /\ [][Next]_vars /\ Fairness

(***************************************************************************)
(* Properties                                                              *)
(***************************************************************************)
InInvocation(c) == run[c] # NoRun \/ pc[c] \notin {"poll", "next"}

\* C1: Idempotent linking. While and after the tagging worker processes a
\* message again, directly after a run of the same message that ended
\* completed without a tag-creation failure and with no tag written since,
\* the document's links are exactly those the earlier run left, and no
\* (document, tag) pair is linked twice.
C1_IdempotentLinking ==
    \A c \in TagConsumers :
        (run[c].prev /\ documents[Msg(c).document_id].exists) =>
            /\ LinksOf(Msg(c).document_id) = run[c].prev_links
            /\ \A row \in DOMAIN document_tags : document_tags[row] = 1
C1_Witness ==
    /\ pc["t1"] = "ret"
    /\ run["t1"].prev
    /\ run["t1"].prev_links # {}
    /\ run["t1"].wrote = <<"processing", "completed">>
    /\ LinksOf(Msg("t1").document_id) = run["t1"].prev_links

\* C2: State-machine totality. When an invocation of either worker has
\* returned, the document's status on that axis is completed, skipped or
\* failed, except that an invocation whose first status write found no
\* document has written no status at all.
C2_Totality ==
    \A c \in {"t1", "e1"} :
        pc[c] = "ret" =>
            /\ run[c].first = "notfound" => run[c].wrote = << >>
            /\ (run[c].first # "notfound" /\ documents[Msg(c).document_id].exists) =>
                   documents[Msg(c).document_id][StatusField(c)] \in Terminal
C2_Witness ==
    /\ pc["t1"] = "ret" /\ pc["e1"] = "ret"
    /\ run["t1"].first = "found" /\ run["e1"].first = "found"
    /\ documents["d1"].exists
    /\ documents["d1"].tag_status = "completed"
    /\ documents["d1"].embedding_status = "skipped"

\* C3: Two candidates of one message in the same semantic cluster ("AI" and
\* "AI "), no tag of that cluster existing beforehand and no creation
\* failing: the invocation that ends completed has created exactly one Tag
\* row and exactly one link.
C3_OneTagPerCluster ==
    \A c \in TagConsumers :
        ( /\ pc[c] = "ret"
          /\ Msg(c).s3_url = "s3://ai2"
          /\ run[c].unmatched /\ ~run[c].fault
          /\ run[c].wrote = <<"processing", "completed">> ) =>
            run[c].created = 1 /\ run[c].linked = 1

\* C4: Threshold correctness. Whenever a candidate has been resolved, a tag
\* was reused and none created if the best-matching tag of the tags table
\* scored >= 0.5 (0.5 included), and a tag was created if every tag scored
\* below 0.5 or there was none (leaving aside a creation that fails).
C4_ThresholdCorrect ==
    \A c \in TagConsumers :
        run[c].resolved # "none" =>
            /\ run[c].db_best >= DedupThreshold => run[c].resolved = "reused"
            /\ (run[c].db_best < DedupThreshold /\ run[c].resolved # "skipped") =>
                   run[c].resolved = "created"

\* C5: Under concurrent deliveries there are never two Tag rows with the
\* same text.
C5_NoDuplicateTag ==
    \A i, j \in 1..Len(tags) : i # j => tags[i] # tags[j]

\* C6: In every reachable state there is at most one document_tags row per
\* (document_id, tag_id) pair, under any interleaving of tagging invocations
\* and API link calls.
C6_UniqueLink ==
    \A row \in DOMAIN document_tags : document_tags[row] <= 1
C6_Witness ==
    \E c \in TagConsumers :
        /\ pc[c] = "except"
        /\ run[c].err = "DocumentTagLinkError"
        /\ documents[Msg(c).document_id].exists
        /\ BagIn(<<Msg(c).document_id, tag_obj[c]>>, document_tags)

\* C7: In every reachable state there is at most one document_embeddings row
\* per document, under any interleaving of embedding invocations.
C7_OneEmbeddingPerDocument ==
    \A d \in Docs : RowsOf(document_embeddings, d) <= 1

C9_NeverRaises ==
    \A c \in Consumers : pc[c] # "raised"

\* C10: every message a worker was called for is deleted from its queue once
\* the loop has moved on from it.
C10_DeletedAfterWorker ==
    \A c \in Consumers : \A i \in invoked[QueueOf(c)] :
        (\A c2 \in Consumers :
            QueueOf(c2) = QueueOf(c) => ~(InInvocation(c2) /\ Cur(c2) = i))
        => qstate[QueueOf(c)][i] = "deleted"

\* C11: a body without "detail" is never handed to process_message, and the
\* step of the loop that skips it deletes it from the queue.
C11_MalformedDeleted ==
    [][\A c \in Consumers :
          /\ Dispatch(c) => Msg(c).detail
          /\ SkipMalformed(c) => qstate'[QueueOf(c)][Cur(c)] = "deleted"]_vars

\* C12: Non-PDF skip. An invocation for a message whose content_type is
\* present and not "application/pdf" never downloads the blob and creates no
\* tag, link or embedding; when it has returned and the document exists, its
\* status writes were processing then skipped and the axis status is skipped.
C12_NonPdfSkipped ==
    \A c \in Consumers :
        (InInvocation(c) /\ Msg(c).content_type \notin {PDF, MISSING}) =>
            /\ ~run[c].downloaded
            /\ run[c].created = 0 /\ run[c].linked = 0 /\ run[c].invalidations = 0
            /\ (pc[c] = "ret" /\ run[c].first = "found"
                    /\ documents[Msg(c).document_id].exists) =>
                   /\ run[c].wrote = <<"processing", "skipped">>
                   /\ documents[Msg(c).document_id][StatusField(c)] = "skipped"
C12_Witness ==
    /\ pc["t1"] = "ret" /\ pc["e1"] = "ret"
    /\ Msg("t1").content_type = PNG /\ Msg("e1").content_type = PNG
    /\ run["t1"].wrote = <<"processing", "skipped">>
    /\ run["e1"].wrote = <<"processing", "skipped">>
    /\ documents["d1"].exists
    /\ documents["d1"].tag_status = "skipped"
    /\ documents["d1"].embedding_status = "skipped"
    /\ tags = << >> /\ document_tags = EmptyBag /\ document_embeddings = EmptyBag

\* C13: Empty-text handling. An invocation that downloaded a PDF whose
\* extracted text is empty creates no tag, link or embedding and makes no
\* cache invalidation; when it has returned and the document exists, the
\* embedding worker wrote processing then skipped and the tagging worker
\* wrote processing then completed.
C13_EmptyText ==
    \A c \in Consumers :
        (InInvocation(c) /\ run[c].extracted
            /\ extract_text_from_pdf(Msg(c).s3_url) = "") =>
            /\ run[c].created = 0 /\ run[c].linked = 0 /\ run[c].invalidations = 0
            /\ (pc[c] = "ret" /\ documents[Msg(c).document_id].exists) =>
                   LET end == IF c \in TagConsumers THEN "completed" ELSE "skipped"
                   IN /\ run[c].wrote = <<"processing", end>>
                      /\ documents[Msg(c).document_id][StatusField(c)] = end
C13_Witness ==
    /\ pc["t1"] = "ret" /\ pc["e1"] = "ret"
    /\ run["t1"].extracted /\ run["e1"].extracted
    /\ Msg("t1").s3_url = "s3://blank" /\ Msg("e1").s3_url = "s3://blank"
    /\ documents["d1"].exists
    /\ documents["d1"].tag_status = "completed"
    /\ documents["d1"].embedding_status = "skipped"
    /\ tags = << >> /\ document_tags = EmptyBag /\ document_embeddings = EmptyBag

\* C14: Cache invalidation exactly once. A tagging invocation that has ended
\* (returned or raised) has invalidated "tags:all" exactly once if it created
\* at least one tag and not at all if it created none.
C14_InvalidatedOnce ==
    \A c \in TagConsumers :
        pc[c] \in {"ret", "raised"} =>
            run[c].invalidations = (IF run[c].created >= 1 THEN 1 ELSE 0)

\* C15: NotFound is a no-op. An invocation whose first (processing) status
\* write found no document has returned at once: it has made no status write,
\* no download, no tag, link or embedding, and no cache invalidation.
C15_NotFoundNoOp ==
    \A c \in Consumers :
        (InInvocation(c) /\ run[c].first = "notfound") =>
            /\ pc[c] = "ret"
            /\ run[c].wrote = << >>
            /\ ~run[c].downloaded
            /\ run[c].created = 0 /\ run[c].linked = 0 /\ run[c].invalidations = 0
C15_Witness ==
    /\ pc["t1"] = "ret" /\ pc["e1"] = "ret"
    /\ run["t1"].first = "notfound" /\ run["e1"].first = "notfound"
    /\ ~documents["d1"].exists
    /\ documents["d1"].tag_status = "pending"
    /\ documents["d1"].embedding_status = "pending"

AfterStepOne ==
    {"route", "loop", "linkcheck", "linkinsert", "finish", "complete",
     "createcheck", "createinsert"}

C18_WriteSequence ==
    \A c \in Consumers :
        (InInvocation(c) /\ run[c].wrote # << >>) =>
            /\ Head(run[c].wrote) = "processing"
            /\ Len(run[c].wrote) <= 2
            /\ Len(run[c].wrote) = 2 => (run[c].wrote[2] \in Terminal /\ pc[c] = "ret")

\* C19: Re-entry. An invocation for an existing document whose axis status
\* was already completed, skipped or failed when the worker was called sets
\* the status to processing as its first write, and when it has returned the
\* status is the terminal status this invocation wrote.
C19_ReentersProcessing ==
    \A c \in {"t1", "e1"} :
        ( /\ InInvocation(c) /\ pc[c] # "start"
          /\ run[c].status0 \in Terminal
          /\ documents[Msg(c).document_id].exists ) =>
            /\ run[c].wrote # << >>
            /\ Head(run[c].wrote) = "processing"
            /\ pc[c] \in AfterStepOne =>
                   documents[Msg(c).document_id][StatusField(c)] = "processing"
            /\ pc[c] = "ret" =>
                   /\ Len(run[c].wrote) = 2
                   /\ run[c].wrote[2] \in Terminal
                   /\ documents[Msg(c).document_id][StatusField(c)] = run[c].wrote[2]

\* C20: Download failure. An invocation for a PDF message whose blob download
\* raised S3DownloadError has returned having written processing then failed,
\* with no tag, link or embedding created and no cache invalidation; the
\* document, if it exists, has status failed on that axis.
C20_DownloadFailure ==
    \A c \in {"t1", "e1"} :
        (InInvocation(c) /\ run[c].err = "S3DownloadError") =>
            /\ pc[c] = "ret"
            /\ Msg(c).content_type = PDF
            /\ ~run[c].extracted
            /\ run[c].created = 0 /\ run[c].linked = 0 /\ run[c].invalidations = 0
            /\ documents[Msg(c).document_id].exists =>
                   /\ run[c].wrote = <<"processing", "failed">>
                   /\ documents[Msg(c).document_id][StatusField(c)] = "failed"
C20_Witness ==
    /\ pc["t1"] = "ret" /\ pc["e1"] = "ret"
    /\ run["t1"].err = "S3DownloadError" /\ run["e1"].err = "S3DownloadError"
    /\ documents["d1"].exists
    /\ documents["d1"].tag_status = "failed"
    /\ documents["d1"].embedding_status = "failed"
    /\ tags = << >> /\ document_tags = EmptyBag /\ document_embeddings = EmptyBag

\* C21: Extraction error. An invocation that downloaded a blob PdfReader
\* cannot parse has, when it has returned and the document exists, ended its
\* axis in failed.
C21_ExtractionErrorFails ==
    \A c \in {"t1", "e1"} :
        ( /\ pc[c] = "ret" /\ run[c].extracted
          /\ PdfReaderRaises(Msg(c).s3_url)
          /\ documents[Msg(c).document_id].exists ) =>
            documents[Msg(c).document_id][StatusField(c)] = "failed"

\* C22: Recoverable creation failure. A tagging invocation in which the
\* creation of a candidate's tag failed and that has returned, the document
\* existing, wrote processing then completed; every candidate whose creation
\* did not fail was resolved and linked, and the failed candidates got no tag
\* and no link.
C22_CreationFailureRecoverable ==
    \A c \in TagConsumers :
        ( /\ pc[c] = "ret" /\ run[c].failed_at # {}
          /\ documents[Msg(c).document_id].exists ) =>
            /\ run[c].wrote = <<"processing", "completed">>
            /\ documents[Msg(c).document_id].tag_status = "completed"
            /\ run[c].done \cup run[c].failed_at
                   = 1..Len(extract_tags(extract_text_from_pdf(Msg(c).s3_url)))
            /\ run[c].done \cap run[c].failed_at = {}
            /\ run[c].created <= Cardinality(run[c].done)
            /\ run[c].linked <= Cardinality(run[c].done)
C22_Witness ==
    /\ pc["t1"] = "ret"
    /\ run["t1"].failed_at = {1} /\ run["t1"].done = {2}
    /\ run["t1"].created = 1 /\ run["t1"].linked = 1
    /\ documents["d1"].exists
    /\ documents["d1"].tag_status = "completed"
    /\ tags = <<"AI_">>
    /\ LinksOf("d1") = {1}

\* C23: create_chunk_embedding for a document that has an embedding raises
\* and leaves the document's records as they were, one record with its
\* chunk text; and an embedding invocation in which create_chunk_embedding
\* failed never writes completed and, once it has returned and the document
\* exists, has written processing then failed.
C23_CreationFailureFatal ==
    \A c \in {"e1"} :
        ( /\ InInvocation(c)
          /\ run[c].err \in {"DocumentEmbeddingCreationError", "DocumentNotFoundError"} ) =>
            /\ run[c].created = 0
            /\ \A k \in 1..Len(run[c].wrote) : run[c].wrote[k] # "completed"
            /\ documents[Msg(c).document_id].exists =>
                   /\ run[c].seen # << >> =>
                          /\ RecordsOf(document_embeddings, Msg(c).document_id) = run[c].seen
                          /\ RowsOf(document_embeddings, Msg(c).document_id) = 1
                   /\ pc[c] = "ret" =>
                          /\ run[c].wrote = <<"processing", "failed">>
                          /\ documents[Msg(c).document_id].embedding_status = "failed"
C23_Witness ==
    /\ pc["e1"] = "ret"
    /\ Msg("e1").s3_url = "s3://ml"
    /\ run["e1"].err = "DocumentEmbeddingCreationError"
    /\ run["e1"].seen = SetToBag({<<"d1", "text-ai2">>})
    /\ document_embeddings = SetToBag({<<"d1", "text-ai2">>})
    /\ documents["d1"].embedding_status = "failed"

\* C24: Document deleted mid-run. No document_tags or document_embeddings
\* row references a document that does not exist; an invocation whose
\* processing write found the document and whose document has since been
\* deleted does not raise; and no step of a worker of one axis changes the
\* position or the locals of a worker of the other axis.
C24_DeletedMidRun ==
    /\ [](\A d \in Docs :
            ~documents[d].exists =>
                RowsOf(document_tags, d) = 0 /\ RowsOf(document_embeddings, d) = 0)
    /\ [](\A c \in Consumers :
            (InInvocation(c) /\ run[c].first = "found"
                /\ ~documents[Msg(c).document_id].exists) =>
                /\ pc[c] # "raised"
                /\ Head(run[c].wrote) = "processing")
    /\ [][ /\ (\E c \in TagConsumers : TaggingWorker(c)) =>
                 \A e \in EmbConsumers :
                     pc'[e] = pc[e] /\ run'[e] = run[e] /\ chunk'[e] = chunk[e]
           /\ (\E c \in EmbConsumers : EmbeddingWorker(c)) =>
                 \A t \in TagConsumers :
                     pc'[t] = pc[t] /\ run'[t] = run[t] /\ cands'[t] = cands[t] ]_vars
C24_Witness ==
    /\ pc["t1"] = "ret" /\ pc["e1"] = "ret"
    /\ ~documents["d1"].exists
    /\ run["t1"].first = "found" /\ run["e1"].first = "found"
    /\ run["t1"].created = 1 /\ run["t1"].err = "DocumentNotFoundError"
    /\ run["e1"].err = "DocumentNotFoundError"
    /\ run["t1"].wrote = <<"processing">> /\ run["e1"].wrote = <<"processing">>
    /\ document_tags = EmptyBag /\ document_embeddings = EmptyBag

\* the state of message i of queue q, "none" before it is emitted
QState(q, i) == IF i <= Len(events) THEN qstate[q][i] ELSE "none"

\* C25: Every message a loop has received is eventually deleted from its
\* queue, and whenever a worker has been called for a message of an existing
\* document, the document's status on that axis is eventually terminal or
\* the document no longer exists.
C25_EventuallyDeleted ==
    /\ \A q \in Queues : \A i \in 1..MaxEvents :
           (QState(q, i) = "inflight") ~> (QState(q, i) = "deleted")
    /\ \A c \in {"t1", "e1"} : \A d \in Docs :
           (pc[c] = "start" /\ Msg(c).document_id = d) ~>
               (~documents[d].exists \/ documents[d][StatusField(c)] \in Terminal)

\* C26: Within one poll iteration every message of the batch is handled: a
\* loop goes back to polling only from the last message of its batch.
C26_BatchHandledInTurn ==
    [][\A c \in Consumers :
          (pc[c] # "poll" /\ pc'[c] = "poll") => Tail(batch[c]) = << >>]_vars

\* C27: No automatic retry. No step of a loop or a worker puts a message on a
\* queue, a deleted message is never delivered again, and a status that is
\* failed changes only by the processing write of a worker called for a
\* message of that document that is still on the queue.
C27_NoAutomaticRetry ==
    [][ /\ (\E c \in Consumers : Loop(c) \/ TaggingWorker(c) \/ EmbeddingWorker(c)) =>
             events' = events
        /\ \A q \in Queues : \A i \in 1..Len(events) :
             qstate[q][i] = "deleted" => qstate'[q][i] = "deleted"
        /\ \A d \in Docs : \A c \in {"t1", "e1"} :
             ( /\ documents[d][StatusField(c)] = "failed"
               /\ documents'[d][StatusField(c)] # "failed" ) =>
                 /\ pc[c] = "start" /\ Msg(c).document_id = d
                 /\ qstate[QueueOf(c)][Cur(c)] = "inflight"
                 /\ documents'[d][StatusField(c)] = "processing" ]_vars
C27_Witness ==
    /\ Len(events) = MaxEvents
    /\ \A q \in Queues : \A i \in 1..MaxEvents : qstate[q][i] = "deleted"
    /\ pc["t1"] = "poll" /\ pc["e1"] = "poll"
    /\ documents["d1"].exists
    /\ documents["d1"].tag_status = "failed"
    /\ documents["d1"].embedding_status = "failed"

\* C28: Only the workers change a status: every step that changes the
\* tag_status or the embedding_status of a document is a step of a tagging
\* or an embedding invocation.
C28_OnlyWorkersWriteStatus ==
    [][\A d \in Docs :
          ( \/ documents'[d].tag_status # documents[d].tag_status
            \/ documents'[d].embedding_status # documents[d].embedding_status ) =>
              \E c \in Consumers : TaggingWorker(c) \/ EmbeddingWorker(c)]_vars

C30_OnlyAdds ==
    [][(\E c \in Consumers : TaggingWorker(c) \/ EmbeddingWorker(c)) =>
          /\ \A d \in Docs : documents'[d].exists = documents[d].exists
          /\ Len(tags') >= Len(tags)
          /\ \A i \in 1..Len(tags) : tags'[i] = tags[i]
          /\ document_tags \sqsubseteq document_tags'
          /\ document_embeddings \sqsubseteq document_embeddings']_vars
C30_Witness ==
    /\ pc["t1"] = "ret"
    /\ Msg("t1").s3_url = "s3://ai2"
    /\ run["t1"].resolved = "reused" /\ run["t1"].created = 0
    /\ run["t1"].wrote = <<"processing", "completed">>
    /\ tags = <<"ML">>
    /\ LinksOf("d1") = {1}
    /\ RowsOf(document_embeddings, "d1") = 1

C33_CompletedHasRecord ==
    \A d \in Docs :
        (documents[d].exists /\ documents[d].embedding_status = "completed") =>
            RowsOf(document_embeddings, d) >= 1

\* C34: a tagging invocation is not atomic. When it has ended with a write
\* of failed, every tag it created is still in the tags table, every link it
\* created is still in document_tags while the document exists, and it has
\* made no cache invalidation.
C34_PartialWorkKept ==
    \A c \in TagConsumers :
        ( /\ pc[c] = "ret" /\ run[c].wrote # << >>
          /\ run[c].wrote[Len(run[c].wrote)] = "failed" ) =>
            /\ run[c].new_tags \subseteq 1..Len(tags)
            /\ documents[Msg(c).document_id].exists =>
                   \A t \in run[c].new_links : BagIn(<<Msg(c).document_id, t>>, document_tags)
            /\ run[c].invalidations = 0
C34_Witness ==
    /\ pc["t1"] = "ret"
    /\ run["t1"].wrote = << "processing", "failed" >>
    /\ run["t1"].err = "DocumentTagLinkError"
    /\ run["t1"].new_tags = {1, 2} /\ run["t1"].new_links = {1}
    /\ tags = << "AI", "AI_" >>
    /\ BagIn(<<"d1", 1>>, document_tags)
    /\ documents["d1"].tag_status = "failed"

\* C35: once a tagging invocation's cache.delete("tags:all") has returned,
\* the "tags:all" entry, if present, holds every tag that invocation created.
C35_CacheCoherent ==
    \A c \in TagConsumers :
        (pc[c] \in {"complete", "ret"} /\ run[c].invalidations >= 1) =>
            (cache.present => \A t \in run[c].new_tags : t <= Len(cache.value))

\* C36: when two tagging consumers have each run an invocation for a
\* delivery of the same message to its end (text extracted, no tag creation
\* failed, the document exists and has no link but theirs), both have ended
\* with a terminal write and the document's tag_status is completed.
C36_DuplicateDeliveryCompletes ==
    \A c1, c2 \in TagConsumers :
        ( /\ c1 # c2 /\ pc[c1] = "ret" /\ pc[c2] = "ret"
          /\ Msg(c1) = Msg(c2)
          /\ run[c1].extracted /\ run[c2].extracted
          /\ run[c1].failed_at = {} /\ run[c2].failed_at = {}
          /\ documents[Msg(c1).document_id].exists
          /\ LinksOf(Msg(c1).document_id) \subseteq run[c1].new_links \cup run[c2].new_links ) =>
            /\ \A c \in {c1, c2} :
                  run[c].wrote # << >> /\ run[c].wrote[Len(run[c].wrote)] \in Terminal
            /\ documents[Msg(c1).document_id].tag_status = "completed"

\* C37: when upload_document has ended without its event having been
\* emitted, the caller got an error response, no message was enqueued, and
\* the document row, unless a client deleted it, has both statuses pending.
C37_EmitFailureReported ==
    (upload.pc = "done" /\ ~upload.emitted) =>
        /\ upload.response = 500
        /\ events = << >>
        /\ documents[upload.body.document_id].exists =>
               /\ documents[upload.body.document_id].tag_status = "pending"
               /\ documents[upload.body.document_id].embedding_status = "pending"

\* C38: an invocation holds one database session from its start to its end.
\* While process_message runs the consumer's session is open and is no other
\* consumer's; once process_message has returned or raised, on any path, it
\* is closed; a session is opened only by the call of process_message and an
\* open session is never replaced by another.
InProcessMessage(c) == pc[c] \notin {"poll", "next", "ret", "raised"}
C38_SessionPerInvocation ==
    /\ [](\A c \in Consumers :
            /\ InProcessMessage(c) => session[c] # NoSession
            /\ ~InProcessMessage(c) => session[c] = NoSession
            /\ \A c2 \in Consumers \ {c} :
                   session[c] # NoSession => session[c2] # session[c])
    /\ [][\A c \in Consumers :
            /\ (session[c] = NoSession /\ session'[c] # NoSession) =>
                   (pc[c] = "next" /\ pc'[c] = "start")
            /\ session[c] # NoSession => session'[c] \in {session[c], NoSession}]_vars
C38_Witness ==
    /\ pc["t1"] = "raised" /\ session["t1"] = NoSession
    /\ pc["e1"] = "ret" /\ session["e1"] = NoSession
    /\ run["e1"].wrote = << "processing", "completed" >>

====
